---- MODULE Spec2Model ----
(***************************************************************************)
(* The activity indicator of crates/activity_indicator: the table of       *)
(* language-server binary statuses, the pending-work query over the        *)
(* project, and content_to_render, the cascade that reduces the four       *)
(* sources to one status line.                                             *)
(*                                                                         *)
(* Option<T> is a sequence of length at most one: None is <<>>, Some(v) is *)
(* <<v>>.  Strings are TLA+ strings, built with \o as the code builds them *)
(* with format!/push_str.  The character U+2026 of the auto-update         *)
(* messages is written "<U+2026>", the module text being ASCII.            *)
(***************************************************************************)
EXTENDS Integers, Sequences, FiniteSets, TLC

VARIABLES statuses, project, auto_updater, tasks, content, emitted, notified, forwarded,
          alive, task, received

vars == <<statuses, project, auto_updater, tasks, content, emitted, notified, forwarded,
          alive, task, received>>

\* ---------------------------------------------------------------- bounds
\* last_update_at is drawn from 1..MaxTime.
MaxTime == 2
\* At most MaxTasks labeled tasks are active at once.
MaxTasks == 2

\* ---------------------------------------------------------------- inputs
None == <<>>
Some(v) == <<v>>

DOWNLOAD_ICON == "icons/download_12.svg"
WARNING_ICON == "icons/triangle_exclamation_12.svg"

\* Language names of the binary-status stream, and the errors a Failed carries.
LspNames == {"Python", "Go", "Rust"}
CascadeLspNames == {"Python", "Go"}
Errors == {"e1", "e2"}
CascadeErrors == {"e1"}

BinaryStatuses(errors) ==
    {[tag |-> t] : t \in {"CheckingForUpdate", "Downloading", "Downloaded", "Cached"}}
        \cup {[tag |-> "Failed", error |-> e] : e \in errors}

AutoUpdateStatuses == {"Idle", "Checking", "Downloading", "Installing", "Updated", "Errored"}

TaskLabels == {"Indexing files", "Formatting"}

\* Language servers of the project and their progress tokens.  TokenOrder lists
\* the tokens in the order of String's Ord, the key order of pending_work.
ServerNames == {"rust-analyzer", "gopls"}
CascadeServerNames == {"rust-analyzer"}
TokenOrder == <<"build", "index">>
Tokens == {TokenOrder[i] : i \in 1..Len(TokenOrder)}
CascadeTokens == {"build"}

Progresses ==
    [message : {None, Some("compiling")},
     percentage : {None, Some(42)},
     last_update_at : 1..MaxTime]
CascadeProgresses ==
    {[message |-> None, percentage |-> Some(42), last_update_at |-> 1]}

\* ---------------------------------------------------------------- helpers
RECURSIVE Join(_, _)
\* [T]::join(sep) on strings
Join(names, sep) ==
    IF names = <<>> THEN ""
    ELSE IF Len(names) = 1 THEN names[1]
    ELSE names[1] \o sep \o Join(Tail(names), sep)

\* Rev leaving the servers in registration order.
Rev_Forward(s) == s

\* Iterator::rev
Rev(s) == [i \in 1..Len(s) |-> s[Len(s) + 1 - i]]

RECURSIVE Flatten(_)
\* Iterator::flatten over a sequence of sequences
Flatten(ss) == IF ss = <<>> THEN <<>> ELSE Head(ss) \o Flatten(Tail(ss))

\* Inserts w into a sequence sorted by Reverse(last_update_at), after every
\* element whose key is not greater: the stable order of slice::sort_by_key.
RECURSIVE InsertByKey(_, _)
InsertByKey(sorted, w) ==
    IF sorted = <<>> THEN <<w>>
    ELSE IF Head(sorted).progress.last_update_at >= w.progress.last_update_at
         THEN <<Head(sorted)>> \o InsertByKey(Tail(sorted), w)
         ELSE <<w>> \o sorted

\* SortByKeyReverse leaving the items in the order of the map.
SortByKeyReverse_Unsorted(ws) == ws

RECURSIVE SortByKeyReverse(_)
\* pending_work.sort_by_key(|work| Reverse(work.progress.last_update_at))
SortByKeyReverse(ws) ==
    IF ws = <<>> THEN <<>>
    ELSE InsertByKey(SortByKeyReverse(SubSeq(ws, 1, Len(ws) - 1)), ws[Len(ws)])

\* status.pending_work.iter(): the entries of the map in key order
PendingWorkIter(pending_work) ==
    LET keys == SelectSeq(TokenOrder, LAMBDA t : t \in DOMAIN pending_work)
    IN  [i \in 1..Len(keys) |-> <<keys[i], pending_work[keys[i]]>>]

\* ServerPendingWork yielding the most recent item of the server only.
ServerPendingWork_HeadOnly(status) ==
    IF DOMAIN status.pending_work = {} THEN None
    ELSE LET entries == PendingWorkIter(status.pending_work)
             items == [i \in 1..Len(entries) |->
                          [language_server_name |-> status.name,
                           progress_token |-> entries[i][1],
                           progress |-> entries[i][2]]]
         IN  Some(<<Head(SortByKeyReverse(items))>>)

\* The filter_map closure: None for a server without pending work, else its
\* PendingWork items sorted by recency.
ServerPendingWork(status) ==
    IF DOMAIN status.pending_work = {} THEN None
    ELSE LET entries == PendingWorkIter(status.pending_work)
             items == [i \in 1..Len(entries) |->
                          [language_server_name |-> status.name,
                           progress_token |-> entries[i][1],
                           progress |-> entries[i][2]]]
         IN  Some(SortByKeyReverse(items))

pending_language_server_work(pr) ==
    LET reversed == Rev(pr)
        yielded == SelectSeq([i \in 1..Len(reversed) |-> ServerPendingWork(reversed[i])],
                             LAMBDA o : o # None)
    IN  Flatten([i \in 1..Len(yielded) |-> yielded[i][1]])

DefaultContent == [icon |-> None, message |-> "", on_click |-> None]

\* PendingWorkContent counting the head among the additional items.
PendingWorkContent_CountsHead(work, additional_work_count) ==
    LET m1 == work.language_server_name \o ": "
        m2 == IF work.progress.message # None
              THEN m1 \o work.progress.message[1]
              ELSE m1 \o work.progress_token
        m3 == IF work.progress.percentage # None
              THEN m2 \o " (" \o ToString(work.progress.percentage[1]) \o "%)"
              ELSE m2
        m4 == m3 \o " + " \o ToString(additional_work_count + 1) \o " more"
    IN  [icon |-> None, message |-> m4, on_click |-> None]

\* Stage 1: the message of the head item and the count of the others.
PendingWorkContent(work, additional_work_count) ==
    LET m1 == work.language_server_name \o ": "
        m2 == IF work.progress.message # None
              THEN m1 \o work.progress.message[1]
              ELSE m1 \o work.progress_token
        m3 == IF work.progress.percentage # None
              THEN m2 \o " (" \o ToString(work.progress.percentage[1]) \o "%)"
              ELSE m2
        m4 == IF additional_work_count > 0
              THEN m3 \o " + " \o ToString(additional_work_count) \o " more"
              ELSE m3
    IN  [icon |-> None, message |-> m4, on_click |-> None]

\* The names of the records of one status tag, in table order.
Bucket(st, tag) ==
    LET sel == SelectSeq(st, LAMBDA s : s.status.tag = tag)
    IN  [i \in 1..Len(sel) |-> sel[i].name]

\* Plural with the suffix for a single name too.
Plural_AtLeastOne(names) == IF Len(names) >= 1 THEN "s" ELSE ""

Plural(names) == IF Len(names) > 1 THEN "s" ELSE ""

\* InstallContent with the checking bucket ahead of the downloading bucket.
InstallContent_CheckingFirst(st) ==
    LET downloading == Bucket(st, "Downloading")
        checking_for_update == Bucket(st, "CheckingForUpdate")
        failed == Bucket(st, "Failed")
    IN  IF checking_for_update # <<>> THEN
            Some([icon |-> Some(DOWNLOAD_ICON),
                  message |-> "Checking for updates to " \o Join(checking_for_update, ", ")
                              \o " language server" \o Plural(checking_for_update) \o "...",
                  on_click |-> None])
        ELSE IF downloading # <<>> THEN
            Some([icon |-> Some(DOWNLOAD_ICON),
                  message |-> "Downloading " \o Join(downloading, ", ")
                              \o " language server" \o Plural(downloading) \o "...",
                  on_click |-> None])
        ELSE IF failed # <<>> THEN
            Some([icon |-> Some(WARNING_ICON),
                  message |-> "Failed to download " \o Join(failed, ", ")
                              \o " language server" \o Plural(failed)
                              \o ". Click to show error.",
                  on_click |-> Some("show_error_message")])
        ELSE None

\* Stage 2: Some(content) when a bucket is non-empty, None to fall through.
InstallContent(st) ==
    LET downloading == Bucket(st, "Downloading")
        checking_for_update == Bucket(st, "CheckingForUpdate")
        failed == Bucket(st, "Failed")
    IN  IF downloading # <<>> THEN
            Some([icon |-> Some(DOWNLOAD_ICON),
                  message |-> "Downloading " \o Join(downloading, ", ")
                              \o " language server" \o Plural(downloading) \o "...",
                  on_click |-> None])
        ELSE IF checking_for_update # <<>> THEN
            Some([icon |-> Some(DOWNLOAD_ICON),
                  message |-> "Checking for updates to " \o Join(checking_for_update, ", ")
                              \o " language server" \o Plural(checking_for_update) \o "...",
                  on_click |-> None])
        ELSE IF failed # <<>> THEN
            Some([icon |-> Some(WARNING_ICON),
                  message |-> "Failed to download " \o Join(failed, ", ")
                              \o " language server" \o Plural(failed)
                              \o ". Click to show error.",
                  on_click |-> Some("show_error_message")])
        ELSE None

\* AutoUpdateContent with the Updated and Errored actions exchanged.
AutoUpdateContent_ActionsSwapped(status) ==
    CASE status = "Checking" ->
            [icon |-> Some(DOWNLOAD_ICON),
             message |-> "Checking for Zed updates<U+2026>", on_click |-> None]
      [] status = "Downloading" ->
            [icon |-> Some(DOWNLOAD_ICON),
             message |-> "Downloading Zed update<U+2026>", on_click |-> None]
      [] status = "Installing" ->
            [icon |-> Some(DOWNLOAD_ICON),
             message |-> "Installing Zed update<U+2026>", on_click |-> None]
      [] status = "Updated" ->
            [icon |-> None,
             message |-> "Click to restart and update Zed",
             on_click |-> Some("dismiss_error_message")]
      [] status = "Errored" ->
            [icon |-> Some(WARNING_ICON),
             message |-> "Auto update failed", on_click |-> Some("restart")]
      [] status = "Idle" -> DefaultContent

\* Stage 3: the match on the updater's status.
AutoUpdateContent(status) ==
    CASE status = "Checking" ->
            [icon |-> Some(DOWNLOAD_ICON),
             message |-> "Checking for Zed updates<U+2026>", on_click |-> None]
      [] status = "Downloading" ->
            [icon |-> Some(DOWNLOAD_ICON),
             message |-> "Downloading Zed update<U+2026>", on_click |-> None]
      [] status = "Installing" ->
            [icon |-> Some(DOWNLOAD_ICON),
             message |-> "Installing Zed update<U+2026>", on_click |-> None]
      [] status = "Updated" ->
            [icon |-> None,
             message |-> "Click to restart and update Zed", on_click |-> Some("restart")]
      [] status = "Errored" ->
            [icon |-> Some(WARNING_ICON),
             message |-> "Auto update failed", on_click |-> Some("dismiss_error_message")]
      [] status = "Idle" -> DefaultContent

\* AmbientContent with an Idle updater falling through to the task stage.
AmbientContent_IdleFallsThrough(au, ta) ==
    IF au # None /\ au[1] # "Idle" THEN AutoUpdateContent(au[1])
    ELSE IF ta # <<>> THEN [icon |-> None, message |-> ta[Len(ta)], on_click |-> None]
    ELSE DefaultContent

\* AmbientContent showing the first task, not the last.
AmbientContent_FirstTask(au, ta) ==
    IF au # None THEN AutoUpdateContent(au[1])
    ELSE IF ta # <<>> THEN [icon |-> None, message |-> ta[1], on_click |-> None]
    ELSE DefaultContent

\* Stages 3 to 5, reached when stages 1 and 2 return nothing.
AmbientContent(au, ta) ==
    IF au # None THEN AutoUpdateContent(au[1])
    ELSE IF ta # <<>> THEN [icon |-> None, message |-> ta[Len(ta)], on_click |-> None]
    ELSE DefaultContent

\* content_to_render with the auto-update stage before the install-status stage.
content_to_render_UpdaterFirst(st, pr, au, ta) ==
    LET pending_work == pending_language_server_work(pr)
    IN  IF pending_work # <<>>
        THEN PendingWorkContent(Head(pending_work), Len(Tail(pending_work)))
        ELSE IF au # None THEN AutoUpdateContent(au[1])
        ELSE IF InstallContent(st) # None THEN InstallContent(st)[1]
        ELSE AmbientContent(au, ta)

content_to_render(st, pr, au, ta) ==
    LET pending_work == pending_language_server_work(pr)
    IN  IF pending_work # <<>>
        THEN PendingWorkContent(Head(pending_work), Len(Tail(pending_work)))
        ELSE IF InstallContent(st) # None THEN InstallContent(st)[1]
        ELSE AmbientContent(au, ta)

\* ---------------------------------------------------------------- actions
\* View::render runs when the effects of a handler are flushed: the widget shows
\* the content resolved from the state the handler leaves.
\* Render keeping a content it resolved earlier instead of resolving again.
Render_Cached ==
    content' = IF content # DefaultContent
               THEN content
               ELSE content_to_render(statuses', project', auto_updater', tasks')

Render ==
    content' = IF notified'
               THEN content_to_render(statuses', project', auto_updater', tasks')
               ELSE content

\* The effects of a handler that does not call cx.notify().
Notify_Forgotten(events, requests) ==
    /\ emitted' = events
    /\ notified' = FALSE
    /\ forwarded' = requests

\* cx.notify() with the events the handler emitted and the requests it forwarded.
Notify(events, requests) ==
    /\ emitted' = events
    /\ notified' = TRUE
    /\ forwarded' = requests

\* A step that emits nothing, forwards nothing and does not notify.
NoEffects ==
    /\ emitted' = <<>>
    /\ notified' = FALSE
    /\ forwarded' = <<>>

\* A handler of the view runs while the view exists; the task of the status
\* stream is not touched by it.
ViewHandler ==
    /\ alive
    /\ UNCHANGED <<alive, task, received>>

\* The update replacing the record of the language where it stands.
UpdateInPlace(language, event) ==
    /\ statuses' =
          IF \E i \in 1..Len(statuses) : statuses[i].name = language
          THEN [i \in 1..Len(statuses) |->
                   IF statuses[i].name = language
                   THEN [name |-> language, status |-> event]
                   ELSE statuses[i]]
          ELSE Append(statuses, [name |-> language, status |-> event])
    /\ UNCHANGED <<project, auto_updater, tasks>>
    /\ Notify(<<>>, <<>>)
    /\ Render

\* One turn of the status_events loop with the in-place update.
StatusEvent_InPlace(language, event) ==
    /\ task = "waiting"
    /\ received' = Some(<<language, event>>)
    /\ IF alive
       THEN /\ UpdateInPlace(language, event)
            /\ UNCHANGED <<alive, task>>
       ELSE /\ task' = "done"
            /\ NoEffects
            /\ UNCHANGED <<statuses, project, auto_updater, tasks, content, alive>>

\* UpdateStatuses retaining the records of the language, not the others.
UpdateStatuses_RetainSame(language, event) ==
    /\ statuses' = Append(SelectSeq(statuses, LAMBDA s : s.name = language),
                          [name |-> language, status |-> event])
    /\ UNCHANGED <<project, auto_updater, tasks>>
    /\ Notify(<<>>, <<>>)
    /\ Render

\* The closure of this.update: the record of the language is replaced by a new
\* last record, and the view is notified.
UpdateStatuses(language, event) ==
    /\ statuses' = Append(SelectSeq(statuses, LAMBDA s : s.name # language),
                          [name |-> language, status |-> event])
    /\ UNCHANGED <<project, auto_updater, tasks>>
    /\ Notify(<<>>, <<>>)
    /\ Render

\* StatusEvent logging the failed update and waiting for the next event.
StatusEvent_KeepsRunning(language, event) ==
    /\ task = "waiting"
    /\ received' = Some(<<language, event>>)
    /\ IF alive
       THEN /\ UpdateStatuses(language, event)
            /\ UNCHANGED <<alive, task>>
       ELSE /\ NoEffects
            /\ UNCHANGED <<statuses, project, auto_updater, tasks, content, alive, task>>

\* One turn of the status_events loop: the task takes (language, event) from
\* the stream and updates the view; when the view is gone the update fails and
\* `?` ends the task.
StatusEvent(language, event) ==
    /\ task = "waiting"
    /\ received' = Some(<<language, event>>)
    /\ IF alive
       THEN /\ UpdateStatuses(language, event)
            /\ UNCHANGED <<alive, task>>
       ELSE /\ task' = "done"
            /\ NoEffects
            /\ UNCHANGED <<statuses, project, auto_updater, tasks, content, alive>>

\* ShowErrorEvents with the events in reverse table order.
ShowErrorEvents_Reversed(st) ==
    LET failed == Rev(SelectSeq(st, LAMBDA s : s.status.tag = "Failed"))
    IN  [i \in 1..Len(failed) |->
            [lsp_name |-> failed[i].name, error |-> failed[i].status.error]]

\* The ShowError events of the Failed records, in table order.
ShowErrorEvents(st) ==
    LET failed == SelectSeq(st, LAMBDA s : s.status.tag = "Failed")
    IN  [i \in 1..Len(failed) |->
            [lsp_name |-> failed[i].name, error |-> failed[i].status.error]]

\* Retained keeping every record: the events are emitted, nothing is removed.
Retained_KeepsAll(st) == st

\* Retained dropping the Downloaded and Cached records with the Failed ones.
Retained_DropsTerminal(st) ==
    SelectSeq(st, LAMBDA s : s.status.tag \in {"CheckingForUpdate", "Downloading"})

\* Retained keeping the newest record whatever its status.
Retained_KeepsNewest(st) ==
    SelectSeq(st, LAMBDA s : s.status.tag # "Failed" \/ s = st[Len(st)])

\* The table show_error_message retains.
Retained(st) == SelectSeq(st, LAMBDA s : s.status.tag # "Failed")

show_error_message ==
    /\ ViewHandler
    /\ statuses' = Retained(statuses)
    /\ UNCHANGED <<project, auto_updater, tasks>>
    /\ Notify(ShowErrorEvents(statuses), <<>>)
    /\ Render

\* AutoUpdater::dismiss_error: the updater leaves its error state.
DismissError(status) == "Idle"

\* dismiss_error_message draining the Failed records as well.
dismiss_error_message_Drains ==
    /\ ViewHandler
    /\ IF auto_updater # None
       THEN /\ auto_updater' = Some(DismissError(auto_updater[1]))
            /\ Notify(ShowErrorEvents(statuses), <<"dismiss_error">>)
       ELSE /\ UNCHANGED auto_updater
            /\ Notify(ShowErrorEvents(statuses), <<>>)
    /\ statuses' = Retained(statuses)
    /\ UNCHANGED <<project, tasks>>
    /\ Render

dismiss_error_message ==
    /\ ViewHandler
    /\ IF auto_updater # None
       THEN /\ auto_updater' = Some(DismissError(auto_updater[1]))
            /\ Notify(<<>>, <<"dismiss_error">>)
       ELSE /\ UNCHANGED auto_updater
            /\ Notify(<<>>, <<>>)
    /\ UNCHANGED <<statuses, project, tasks>>
    /\ Render

\* workspace::restart, requested by the click on the Updated content.
Restart ==
    /\ ViewHandler
    /\ UNCHANGED <<statuses, project, auto_updater, tasks>>
    /\ emitted' = <<>>
    /\ notified' = FALSE
    /\ forwarded' = <<"restart">>
    /\ Render

\* The click on the rendered element runs the on_click of the rendered content.
Click ==
    /\ alive
    /\ content.on_click # None
    /\ CASE content.on_click[1] = "show_error_message" -> show_error_message
         [] content.on_click[1] = "dismiss_error_message" -> dismiss_error_message
         [] content.on_click[1] = "restart" -> Restart

\* cx.observe(auto_updater, ...): the updater changed its status.
AutoUpdaterChanged(status) ==
    /\ ViewHandler
    /\ auto_updater # None
    /\ auto_updater' = Some(status)
    /\ UNCHANGED <<statuses, project, tasks>>
    /\ Notify(<<>>, <<>>)
    /\ Render

\* cx.observe_active_labeled_tasks: a labeled task became active.
TaskStarted(label) ==
    /\ ViewHandler
    /\ Len(tasks) < MaxTasks
    /\ tasks' = Append(tasks, label)
    /\ UNCHANGED <<statuses, project, auto_updater>>
    /\ Notify(<<>>, <<>>)
    /\ Render

\* cx.observe_active_labeled_tasks: the i-th active task finished.
TaskFinished(i) ==
    /\ ViewHandler
    /\ i \in 1..Len(tasks)
    /\ tasks' = SubSeq(tasks, 1, i - 1) \o SubSeq(tasks, i + 1, Len(tasks))
    /\ UNCHANGED <<statuses, project, auto_updater>>
    /\ Notify(<<>>, <<>>)
    /\ Render

\* cx.observe(&project, ...): a language server was registered.  Each server
\* name is registered once.
ServerRegistered(name) ==
    /\ ViewHandler
    /\ \A i \in 1..Len(project) : project[i].name # name
    /\ project' = Append(project, [name |-> name, pending_work |-> <<>>])
    /\ UNCHANGED <<statuses, auto_updater, tasks>>
    /\ Notify(<<>>, <<>>)
    /\ Render

\* cx.observe(&project, ...): server i started or reported progress on a token.
ProgressReported(i, token, progress) ==
    /\ ViewHandler
    /\ i \in 1..Len(project)
    /\ project' = [project EXCEPT ![i].pending_work =
                      [t \in DOMAIN @ \cup {token} |-> IF t = token THEN progress ELSE @[t]]]
    /\ UNCHANGED <<statuses, auto_updater, tasks>>
    /\ Notify(<<>>, <<>>)
    /\ Render

\* cx.observe(&project, ...): server i ended the work of a token.
ProgressEnded(i, token) ==
    /\ ViewHandler
    /\ i \in 1..Len(project)
    /\ token \in DOMAIN project[i].pending_work
    /\ project' = [project EXCEPT ![i].pending_work =
                      [t \in DOMAIN @ \ {token} |-> @[t]]]
    /\ UNCHANGED <<statuses, auto_updater, tasks>>
    /\ Notify(<<>>, <<>>)
    /\ Render

\* View::render called again with no source changed (a repaint of the window).
RenderAgain ==
    /\ ViewHandler
    /\ content' = content_to_render(statuses, project, auto_updater, tasks)
    /\ UNCHANGED <<statuses, project, auto_updater, tasks, emitted, notified, forwarded>>

\* The view is released: its handlers and observations go with it, the task of
\* the status stream stays until its next event.
Teardown ==
    /\ alive
    /\ alive' = FALSE
    /\ NoEffects
    /\ UNCHANGED <<statuses, project, auto_updater, tasks, content, task, received>>

\* ---------------------------------------------------------------- specifications
\* ActivityIndicator::new: an empty table; the updater is attached or absent.
Init ==
    /\ statuses = <<>>
    /\ project = <<>>
    /\ auto_updater \in {None, Some("Idle")}
    /\ tasks = <<>>
    /\ content = DefaultContent
    /\ emitted = <<>>
    /\ notified = FALSE
    /\ forwarded = <<>>
    /\ alive = TRUE
    /\ task = "waiting"
    /\ received = None

ProjectNext(names, tokens, progresses) ==
    \/ \E name \in names : ServerRegistered(name)
    \/ \E i \in 1..Len(project), token \in tokens, progress \in progresses :
          ProgressReported(i, token, progress)
    \/ \E i \in 1..Len(project), token \in tokens : ProgressEnded(i, token)

TableNext(names, errors) ==
    \/ \E language \in names, event \in BinaryStatuses(errors) : StatusEvent(language, event)
    \/ show_error_message
    \/ dismiss_error_message
    \/ Click
    \/ RenderAgain
    \/ Teardown

AmbientNext ==
    \/ \E status \in AutoUpdateStatuses : AutoUpdaterChanged(status)
    \/ \E label \in TaskLabels : TaskStarted(label)
    \/ \E i \in 1..Len(tasks) : TaskFinished(i)

\* The whole widget: every source changes, over the smaller input sets.
Next ==
    \/ TableNext(CascadeLspNames, CascadeErrors)
    \/ AmbientNext
    \/ ProjectNext(CascadeServerNames, CascadeTokens, CascadeProgresses)

Spec == Init /\ [][Next]_vars

\* The status table under three languages and two errors.
NextTable == TableNext(LspNames, Errors)

SpecTable == Init /\ [][NextTable]_vars

\* The project under two servers, two tokens and every progress.
NextPending == ProjectNext(ServerNames, Tokens, Progresses) \/ RenderAgain

SpecPending == Init /\ [][NextPending]_vars

\* ---------------------------------------------------------------- properties
\* What the stages read, stated on the state alone.
PendingExists == \E i \in 1..Len(project) : DOMAIN project[i].pending_work # {}
HasTag(tag) == \E i \in 1..Len(statuses) : statuses[i].status.tag = tag
InstallYields == HasTag("Downloading") \/ HasTag("CheckingForUpdate") \/ HasTag("Failed")
EmptyContent == [icon |-> None, message |-> "", on_click |-> None]

\* The number of the first stage that has something to show.
FirstStage ==
    IF PendingExists THEN 1
    ELSE IF InstallYields THEN 2
    ELSE IF auto_updater # None THEN 3
    ELSE IF tasks # <<>> THEN 4
    ELSE 5

\* What stage k shows on the current state.
StageResult(k) ==
    CASE k = 1 -> LET work == pending_language_server_work(project)
                  IN  PendingWorkContent(Head(work), Len(work) - 1)
      [] k = 2 -> InstallContent(statuses)[1]
      [] k = 3 -> AutoUpdateContent(auto_updater[1])
      [] k = 4 -> [icon |-> None, message |-> tasks[Len(tasks)], on_click |-> None]
      [] k = 5 -> EmptyContent

\* C1: the content is the result of the first stage, in the order pending work,
\* install status, auto-updater, ambient task, fallback, that yields one: pending
\* work wins over Failed records, and a Failed record (with no Downloading or
\* CheckingForUpdate record) wins over an updater in state Errored, with the
\* warning icon and the show-errors action.
C1_CascadeOrder ==
    /\ content = StageResult(FirstStage)
    /\ PendingExists =>
          /\ content.icon = None
          /\ content.on_click = None
    /\ (~PendingExists /\ HasTag("Failed")
            /\ ~HasTag("Downloading") /\ ~HasTag("CheckingForUpdate")) =>
          /\ content.icon = Some(WARNING_ICON)
          /\ content.on_click = Some("show_error_message")
          /\ content.message # "Auto update failed"

\* A Failed record and an updater in state Errored, no pending work: the failed
\* install is shown.
C1_Witness ==
    /\ ~PendingExists
    /\ HasTag("Failed")
    /\ auto_updater = Some("Errored")
    /\ content.on_click = Some("show_error_message")

\* C5: with an updater attached and Idle and nothing from stages 1 and 2, the
\* content is empty even when tasks are active; a task description is shown only
\* when no updater is attached.
C5_IdleUpdaterIsAuthoritative ==
    /\ (auto_updater = Some("Idle") /\ ~PendingExists /\ ~InstallYields) =>
          content = EmptyContent
    /\ (tasks # <<>> /\ content.message = tasks[Len(tasks)]) => auto_updater = None

\* An Idle updater, an active task, and empty content.
C5_Witness ==
    /\ auto_updater = Some("Idle")
    /\ tasks # <<>>
    /\ ~PendingExists /\ ~InstallYields
    /\ content = EmptyContent

\* The auto-update table as the claim states it.
ClaimedUpdateTable ==
    [Checking |-> [icon |-> Some(DOWNLOAD_ICON),
                   message |-> "Checking for updates<U+2026>", on_click |-> None],
     Downloading |-> [icon |-> Some(DOWNLOAD_ICON),
                      message |-> "Downloading update<U+2026>", on_click |-> None],
     Installing |-> [icon |-> Some(DOWNLOAD_ICON),
                     message |-> "Installing update<U+2026>", on_click |-> None],
     Updated |-> [icon |-> None,
                  message |-> "Click to restart and update", on_click |-> Some("restart")],
     Errored |-> [icon |-> Some(WARNING_ICON),
                  message |-> "Auto update failed",
                  on_click |-> Some("dismiss_error_message")],
     Idle |-> [icon |-> None, message |-> "", on_click |-> None]]

\* The same table with the messages that name the application.
AmendedUpdateTable ==
    [ClaimedUpdateTable EXCEPT
        !.Checking.message = "Checking for Zed updates<U+2026>",
        !.Downloading.message = "Downloading Zed update<U+2026>",
        !.Installing.message = "Installing Zed update<U+2026>",
        !.Updated.message = "Click to restart and update Zed"]

UpdaterDecides == auto_updater # None /\ ~PendingExists /\ ~InstallYields

\* C7 as stated: with an updater attached and nothing from stages 1 and 2, the
\* content is the entry of the updater's state in the table Checking -> "Checking
\* for updates...", Downloading -> "Downloading update...", Installing ->
\* "Installing update...", Updated -> "Click to restart and update".
C7_ClaimedTable == UpdaterDecides => content = ClaimedUpdateTable[auto_updater[1]]

\* C7: with an updater attached and nothing from stages 1 and 2, the content is
\* the entry of the updater's state: Checking, Downloading and Installing show
\* the download icon, no action and the messages "Checking for Zed updates...",
\* "Downloading Zed update...", "Installing Zed update..."; Updated shows no
\* icon, "Click to restart and update Zed" and the restart action; Errored the
\* warning icon, "Auto update failed" and the dismiss action; Idle is empty.
C7_UpdateTable == UpdaterDecides => content = AmendedUpdateTable[auto_updater[1]]

\* The updater decides, in state Updated: the click restarts.
C7_Witness ==
    /\ UpdaterDecides
    /\ auto_updater = Some("Updated")
    /\ content.on_click = Some("restart")
    /\ tasks # <<>>

\* C10: with no pending work, no Downloading, CheckingForUpdate or Failed record
\* and no updater, the content is the description of the last task, without icon
\* or action, and it is empty when no task is active.
C10_AmbientTask ==
    (~PendingExists /\ ~InstallYields /\ auto_updater = None) =>
        IF tasks # <<>>
        THEN content = [icon |-> None, message |-> tasks[Len(tasks)], on_click |-> None]
        ELSE content = EmptyContent

\* The tasks "Indexing files" then "Formatting": "Formatting" is shown.
C10_Witness ==
    /\ tasks = <<"Indexing files", "Formatting">>
    /\ auto_updater = None
    /\ ~PendingExists /\ ~InstallYields
    /\ content.message = "Formatting"

\* The names of a table, the place of a name in it, and the order of names.
Names(st) == {st[i].name : i \in 1..Len(st)}
Pos(st, n) == CHOOSE i \in 1..Len(st) : st[i].name = n
UniqueNames(st) == \A i, j \in 1..Len(st) : st[i].name = st[j].name => i = j
SameOrder(st1, st2, names) ==
    \A m1, m2 \in names : (Pos(st1, m1) < Pos(st1, m2)) <=> (Pos(st2, m1) < Pos(st2, m2))
SameRecords(st1, st2, names) ==
    \A m \in names : st1[Pos(st1, m)] = st2[Pos(st2, m)]

\* C2: the table holds at most one record per name; a status update received
\* while the view exists leaves its
\* record last, with the status of the update, and the other records as they
\* were and in their order; every other step changes no record and no order and
\* removes Failed records only. So each record is the last update of its name
\* and the most recently updated name is last.
C2_LastWriteWins ==
    [][/\ UniqueNames(statuses')
       /\ \A n \in LspNames, s \in BinaryStatuses(Errors) :
             (alive /\ StatusEvent(n, s)) =>
                /\ statuses' # <<>>
                /\ statuses'[Len(statuses')] = [name |-> n, status |-> s]
                /\ Names(statuses') = Names(statuses) \cup {n}
                /\ SameRecords(statuses, statuses', Names(statuses) \ {n})
                /\ SameOrder(statuses, statuses', Names(statuses) \ {n})
       /\ (~ (alive /\ \E n \in LspNames, s \in BinaryStatuses(Errors) : StatusEvent(n, s))) =>
                /\ Names(statuses') \subseteq Names(statuses)
                /\ SameRecords(statuses, statuses', Names(statuses'))
                /\ SameOrder(statuses, statuses', Names(statuses'))
                /\ \A m \in Names(statuses) \ Names(statuses') :
                      statuses[Pos(statuses, m)].status.tag = "Failed"
      ]_vars

\* Three records, the first updated one of them Rust and the last one Failed.
C2_Witness ==
    /\ Len(statuses) = 3
    /\ statuses[1].name = "Rust"
    /\ statuses[2].status.tag = "Downloaded"
    /\ statuses[3] = [name |-> "Python", status |-> [tag |-> "Failed", error |-> "e2"]]

FailedAt(st) == {i \in 1..Len(st) : st[i].status.tag = "Failed"}

\* C3: show_error_message removes exactly the Failed records, keeps the others
\* in their order, and emits one ShowError per removed record, with its name and
\* error, in table order.
C3_DrainFailed ==
    [][show_error_message =>
         /\ \A i \in 1..Len(statuses) :
               (i \notin FailedAt(statuses)) <=>
                   (\E j \in 1..Len(statuses') : statuses'[j] = statuses[i])
         /\ \A j \in 1..Len(statuses') : \E i \in 1..Len(statuses) : statuses'[j] = statuses[i]
         /\ Len(statuses') = Len(statuses) - Cardinality(FailedAt(statuses))
         /\ SameOrder(statuses, statuses', Names(statuses'))
         /\ Len(emitted') = Cardinality(FailedAt(statuses))
         /\ \A k \in 1..Len(emitted') : \E i \in FailedAt(statuses) :
               emitted'[k] = [lsp_name |-> statuses[i].name, error |-> statuses[i].status.error]
         /\ \A k1, k2 \in 1..Len(emitted') :
               k1 < k2 => Pos(statuses, emitted'[k1].lsp_name) < Pos(statuses, emitted'[k2].lsp_name)
      ]_vars

\* A drain has emitted two events with different errors and left one record.
C3_Witness ==
    /\ Len(emitted) = 2
    /\ emitted[1].error # emitted[2].error
    /\ Len(statuses) = 1

RECURSIVE NamesFrom(_, _)
\* The names of the records of one tag from place i on, in table order.
NamesFrom(i, tag) ==
    IF i > Len(statuses) THEN <<>>
    ELSE (IF statuses[i].status.tag = tag THEN <<statuses[i].name>> ELSE <<>>)
             \o NamesFrom(i + 1, tag)

RECURSIVE CommaList(_)
\* Names joined by ", ".
CommaList(ns) ==
    IF Len(ns) = 1 THEN ns[1]
    ELSE CommaList(SubSeq(ns, 1, Len(ns) - 1)) \o ", " \o ns[Len(ns)]

ServerWord(ns) == IF Len(ns) = 1 THEN " language server" ELSE " language servers"

\* C6: with no pending work, a Downloading record gives the downloading message,
\* download icon, no action; else a CheckingForUpdate record the checking
\* message, download icon, no action; else a Failed record the failed message,
\* warning icon and the show-errors action; Downloaded and Cached records give
\* nothing; the show-errors action is offered only with a Failed record and no
\* Downloading or CheckingForUpdate record.
C6_InstallPrecedence ==
    LET d == NamesFrom(1, "Downloading")
        c == NamesFrom(1, "CheckingForUpdate")
        f == NamesFrom(1, "Failed")
    IN  ~PendingExists =>
          /\ d # <<>> =>
                content = [icon |-> Some(DOWNLOAD_ICON),
                           message |-> "Downloading " \o CommaList(d) \o ServerWord(d) \o "...",
                           on_click |-> None]
          /\ (d = <<>> /\ c # <<>>) =>
                content = [icon |-> Some(DOWNLOAD_ICON),
                           message |-> "Checking for updates to " \o CommaList(c)
                                       \o ServerWord(c) \o "...",
                           on_click |-> None]
          /\ (d = <<>> /\ c = <<>> /\ f # <<>>) =>
                content = [icon |-> Some(WARNING_ICON),
                           message |-> "Failed to download " \o CommaList(f)
                                       \o ServerWord(f) \o ". Click to show error.",
                           on_click |-> Some("show_error_message")]
          /\ (d = <<>> /\ c = <<>> /\ f = <<>>) =>
                content = AmbientContent(auto_updater, tasks)
          /\ content.on_click = Some("show_error_message") =>
                (f # <<>> /\ d = <<>> /\ c = <<>>)

\* Records of all three kinds and a Cached one are in the table: the
\* downloading message is shown.
C6_Witness ==
    /\ HasTag("Downloading") /\ HasTag("CheckingForUpdate") /\ HasTag("Failed")
    /\ content.icon = Some(DOWNLOAD_ICON)
    /\ content.message = "Downloading Rust language server..."

\* The bucket that decides the install-status message.
WinningBucket ==
    IF HasTag("Downloading") THEN NamesFrom(1, "Downloading")
    ELSE IF HasTag("CheckingForUpdate") THEN NamesFrom(1, "CheckingForUpdate")
    ELSE NamesFrom(1, "Failed")

\* C9: in an install-status message the names of the winning bucket are joined
\* by ", " in table order, and "language server" is followed by "s" iff the
\* bucket holds more than one name.
C9_NamesAndPlural ==
    (~PendingExists /\ InstallYields) =>
        \E pre \in {"Downloading ", "Checking for updates to ", "Failed to download "},
           post \in {"...", ". Click to show error."} :
            content.message =
                pre \o CommaList(WinningBucket) \o " language server"
                    \o (IF Len(WinningBucket) > 1 THEN "s" ELSE "") \o post

\* Python then Go are downloading, Rust is cached.
C9_Witness ==
    /\ Len(statuses) = 3
    /\ content.message = "Downloading Python, Go language servers..."

\* The place of a provider in the registration order.
RegPos(name) == CHOOSE k \in 1..Len(project) : project[k].name = name
\* The last-registered provider that has pending work.
LastBusy ==
    CHOOSE k \in 1..Len(project) :
        /\ DOMAIN project[k].pending_work # {}
        /\ \A l \in (k + 1)..Len(project) : DOMAIN project[l].pending_work = {}

\* C4 as stated: the pending-work sequence is sorted by last_update_at
\* descending across all providers, so its head has the maximum last_update_at
\* of all pending items.
C4_GloballySorted ==
    LET work == pending_language_server_work(project)
    IN  /\ \A i, j \in 1..Len(work) :
              i < j => work[i].progress.last_update_at >= work[j].progress.last_update_at
        /\ work # <<>> =>
              \A k \in 1..Len(project) : \A t \in DOMAIN project[k].pending_work :
                  Head(work).progress.last_update_at >= project[k].pending_work[t].last_update_at

\* C4: the pending-work sequence lists the providers with pending work in
\* reverse registration order and, within each provider, its items by
\* last_update_at descending; the head has the maximum last_update_at among the
\* items of the last-registered provider that has pending work.
C4_SortedWithinProvider ==
    LET work == pending_language_server_work(project)
    IN  /\ \A i, j \in 1..Len(work) :
              i < j =>
                 IF work[i].language_server_name = work[j].language_server_name
                 THEN work[i].progress.last_update_at >= work[j].progress.last_update_at
                 ELSE RegPos(work[i].language_server_name)
                          > RegPos(work[j].language_server_name)
        /\ PendingExists =>
              /\ work # <<>>
              /\ Head(work).language_server_name = project[LastBusy].name
              /\ \A t \in DOMAIN project[LastBusy].pending_work :
                    Head(work).progress.last_update_at
                        >= project[LastBusy].pending_work[t].last_update_at

\* The first-registered provider holds the most recent item, the later one two
\* older items: the head is an item of the later provider.
C4_Witness ==
    /\ Len(project) = 2
    /\ DOMAIN project[1].pending_work = {"build"}
    /\ project[1].pending_work["build"].last_update_at = 2
    /\ DOMAIN project[2].pending_work = {"build", "index"}
    /\ \A t \in Tokens : project[2].pending_work[t].last_update_at = 1
    /\ Head(pending_language_server_work(project)).language_server_name = project[2].name

RECURSIVE TotalItems(_)
\* The number of progress tokens of the first k providers.
TotalItems(k) ==
    IF k = 0 THEN 0
    ELSE TotalItems(k - 1) + Cardinality(DOMAIN project[k].pending_work)

\* C8: with pending work the message is "{provider}: {X}", X the head's message
\* or else its token, then " ({percentage}%)" iff the head has a percentage,
\* then " + {N} more" iff N > 0, N the number of pending items of all providers
\* other than the head; no icon and no action.
C8_PendingMessage ==
    PendingExists =>
        LET head == Head(pending_language_server_work(project))
            n == TotalItems(Len(project)) - 1
            x == IF head.progress.message = None
                 THEN head.progress_token
                 ELSE head.progress.message[1]
            pct == IF head.progress.percentage = None
                   THEN ""
                   ELSE " (" \o ToString(head.progress.percentage[1]) \o "%)"
            more == IF n > 0 THEN " + " \o ToString(n) \o " more" ELSE ""
        IN  content = [icon |-> None,
                       message |-> head.language_server_name \o ": " \o x \o pct \o more,
                       on_click |-> None]

\* The head is the item "build" of rust-analyzer, without message and at 42%,
\* and the one other item is of gopls.
C8_Witness ==
    /\ content.message = "rust-analyzer: build (42%) + 1 more"
    /\ \E k \in 1..Len(project) :
          project[k].name = "gopls" /\ DOMAIN project[k].pending_work # {}

\* C11: drains and updates are single steps: the step of an update for a name
\* leaves a record with that name and status in the table, and a record leaves
\* the table only in the step of a later update for its name or, when it is
\* Failed, in the step of a drain; so no update is lost to a drain.
C11_UpdateNeverLost ==
    [][/\ \A n \in LspNames, s \in BinaryStatuses(Errors) :
             (alive /\ StatusEvent(n, s)) =>
                 \E j \in 1..Len(statuses') : statuses'[j] = [name |-> n, status |-> s]
       /\ \A i \in 1..Len(statuses) :
             \/ \E j \in 1..Len(statuses') : statuses'[j] = statuses[i]
             \/ alive /\ \E s \in BinaryStatuses(Errors) : StatusEvent(statuses[i].name, s)
             \/ statuses[i].status.tag = "Failed" /\ show_error_message
      ]_vars

\* A drain has removed one Failed record and the two other records are there.
C11_Witness ==
    /\ alive
    /\ Len(emitted) = 1
    /\ Len(statuses) = 2
    /\ emitted[1].lsp_name \notin Names(statuses)

\* C12: once the view is torn down no step changes the table or the rendered
\* content, notifies or emits; the task of the status stream takes at most one
\* more event, which ends it, and an ended task takes no event.
C12_NoCallbackAfterTeardown ==
    [][/\ ~alive =>
             /\ ~alive'
             /\ statuses' = statuses
             /\ content' = content
             /\ ~notified'
             /\ emitted' = <<>>
             /\ received' # received => (task = "waiting" /\ task' = "done")
       /\ task = "done" => (task' = "done" /\ received' = received)
      ]_vars

\* After the teardown the task has taken an event for Go and ended; the table
\* has a record, and none for Go.
C12_Witness ==
    /\ ~alive
    /\ task = "done"
    /\ received = Some(<<"Go", [tag |-> "Downloading"]>>)
    /\ statuses # <<>>
    /\ "Go" \notin Names(statuses)

\* C13: the step of an applied status update, of a show-errors dispatch and of a
\* dismiss dispatch, and any step that changes the table, notifies the view, and
\* the content rendered after it is the one resolved from the state it leaves.
C13_MutationNotifies ==
    [][(\/ statuses' # statuses
        \/ show_error_message
        \/ dismiss_error_message
        \/ alive /\ \E n \in CascadeLspNames, s \in BinaryStatuses(CascadeErrors) :
                       StatusEvent(n, s))
          => /\ notified'
             /\ content' = content_to_render(statuses', project', auto_updater', tasks')
      ]_vars

\* A drain has notified: the rendered content is the one of the records left.
C13_Witness ==
    /\ notified
    /\ emitted # <<>>
    /\ content.message = "Checking for updates to Go language server..."

\* C14: a dismiss dispatch leaves the table as it is, emits no ShowError, and
\* forwards one dismiss_error request to the updater when one is attached and
\* nothing when none is.
C14_DismissFrame ==
    [][dismiss_error_message =>
          /\ statuses' = statuses
          /\ emitted' = <<>>
          /\ forwarded' = IF auto_updater # None THEN <<"dismiss_error">> ELSE <<>>
      ]_vars

\* A dismiss request was forwarded and the table still holds its two records,
\* a Failed one among them.
C14_Witness ==
    /\ forwarded = <<"dismiss_error">>
    /\ auto_updater # None
    /\ Len(statuses) = 2
    /\ HasTag("Failed")

\* C15: a drain leaves no Failed record, so a drain right after a drain (the
\* first one's events still being the emitted ones), or on any table without a
\* Failed record, emits nothing and leaves the table as it is.
C15_SecondDrainIsEmpty ==
    [][show_error_message =>
          /\ FailedAt(statuses') = {}
          /\ Len(emitted') = Cardinality(FailedAt(statuses))
          /\ (emitted # <<>> \/ FailedAt(statuses) = {}) =>
                (statuses' = statuses /\ emitted' = <<>>)
      ]_vars

\* A first drain has emitted one event and left one record: the second drain
\* starts here.
C15_Witness ==
    /\ alive
    /\ Len(emitted) = 1
    /\ Len(statuses) = 1
    /\ FailedAt(statuses) = {}

\* The providers that have pending work, in registration order.
BusyProviders == SelectSeq(project, LAMBDA p : DOMAIN p.pending_work # {})

\* C16: the providers are visited in reverse registration order: of two items
\* of different providers with equal last_update_at the one of the
\* later-registered provider comes first, the sequence starts with the
\* last-registered provider that has work and ends with the first-registered.
C16_ReverseRegistrationOrder ==
    LET work == pending_language_server_work(project)
    IN  /\ \A i, j \in 1..Len(work) :
              (/\ i < j
               /\ work[i].language_server_name # work[j].language_server_name
               /\ work[i].progress.last_update_at = work[j].progress.last_update_at)
                 => RegPos(work[i].language_server_name)
                        > RegPos(work[j].language_server_name)
        /\ BusyProviders # <<>> =>
              /\ work # <<>>
              /\ work[1].language_server_name = BusyProviders[Len(BusyProviders)].name
              /\ work[Len(work)].language_server_name = BusyProviders[1].name

\* Two providers each hold one item with the same last_update_at: the item of
\* the provider registered second is the head.
C16_Witness ==
    /\ Len(project) = 2
    /\ \A k \in 1..2 :
          /\ DOMAIN project[k].pending_work = {"index"}
          /\ project[k].pending_work["index"].last_update_at = 2
    /\ Head(pending_language_server_work(project)).language_server_name = project[2].name

\* C17: the pending-work sequence holds one item for each pair of a provider
\* and one of its progress tokens, with that token's progress, and nothing
\* else; a provider without tokens gives no item, and the length is the number
\* of tokens of all providers.
C17_OneItemPerToken ==
    LET work == pending_language_server_work(project)
    IN  /\ Len(work) = TotalItems(Len(project))
        /\ \A k \in 1..Len(project) : \A t \in DOMAIN project[k].pending_work :
              Cardinality({i \in 1..Len(work) :
                              /\ work[i].language_server_name = project[k].name
                              /\ work[i].progress_token = t}) = 1
        /\ \A i \in 1..Len(work) : \E k \in 1..Len(project) :
              /\ project[k].name = work[i].language_server_name
              /\ work[i].progress_token \in DOMAIN project[k].pending_work
              /\ work[i].progress = project[k].pending_work[work[i].progress_token]

\* A provider with two tokens and a provider with none: two items.
C17_Witness ==
    /\ Len(project) = 2
    /\ DOMAIN project[1].pending_work = {"build", "index"}
    /\ DOMAIN project[2].pending_work = {}
    /\ Len(pending_language_server_work(project)) = 2

\* C18: the table changes only in the step of a status update or of a drain;
\* a record that is not Failed stays, as it is, through every step but an
\* update for its own name, whatever else happens (content resolution, dismiss,
\* project, updater and task notifications, teardown).
C18_RecordsStay ==
    [][/\ statuses' # statuses =>
             \/ show_error_message
             \/ alive /\ \E n \in CascadeLspNames, s \in BinaryStatuses(CascadeErrors) :
                            StatusEvent(n, s)
       /\ \A i \in 1..Len(statuses) :
             statuses[i].status.tag # "Failed" =>
                \/ \E j \in 1..Len(statuses') : statuses'[j] = statuses[i]
                \/ alive /\ \E s \in BinaryStatuses(CascadeErrors) :
                               StatusEvent(statuses[i].name, s)
      ]_vars

\* A drain has emitted an event and the Downloaded record is still in the
\* table, with a task active.
C18_Witness ==
    /\ emitted # <<>>
    /\ HasTag("Downloaded")
    /\ tasks # <<>>

\* The four sources content_to_render reads.
Snapshots == <<statuses, project, auto_updater, tasks>>

\* C19: the rendered content is a function of the four current snapshots alone:
\* after every step it is the content resolved from the snapshots of that
\* moment, it changes only when a snapshot changed, and resolving it again
\* changes no snapshot and emits, notifies and forwards nothing.
C19_ReadOnlyResolution ==
    [][/\ content' = content_to_render(statuses', project', auto_updater', tasks')
       /\ content' # content => Snapshots' # Snapshots
       /\ RenderAgain =>
             UNCHANGED <<statuses, project, auto_updater, tasks, emitted, notified, forwarded>>
      ]_vars

\* All four sources have something to show and the content is the pending work.
C19_Witness ==
    /\ alive
    /\ HasTag("Failed")
    /\ auto_updater = Some("Errored")
    /\ tasks # <<>>
    /\ content.message = "rust-analyzer: build (42%)"

\* The names whose record in st is Failed.
FailedNames(st) == {st[i].name : i \in FailedAt(st)}

\* Every failed-install message the language names can produce.
FailedMessages ==
    LET lists == UNION {[1..n -> LspNames] : n \in 1..Cardinality(LspNames)}
    IN  {"Failed to download " \o CommaList(f) \o ServerWord(f)
             \o ". Click to show error." : f \in lists}

\* C20: a drain leaves no Failed record; while the table holds none the
\* content is neither the failed-install message nor the show-error action;
\* and a language becomes Failed only by a status update that reports Failed
\* for that language, so a drained error is shown again only after its
\* provider failed again.
C20_ClearedUntilNewFailure ==
    [][/\ show_error_message => FailedAt(statuses') = {}
       /\ FailedAt(statuses') = {} =>
             /\ content'.on_click # Some("show_error_message")
             /\ content'.message \notin FailedMessages
       /\ \A n \in FailedNames(statuses') \ FailedNames(statuses) :
             alive /\ \E e \in CascadeErrors :
                         StatusEvent(n, [tag |-> "Failed", error |-> e])
      ]_vars

\* Both languages failed and the drain has emitted both errors: nothing is
\* Failed any more and the content has moved on to the updater.
C20_Witness ==
    /\ Len(emitted) = 2
    /\ FailedAt(statuses) = {}
    /\ auto_updater = Some("Errored")
    /\ content.on_click = Some("dismiss_error_message")

====
